---- MODULE Spec2Model ----
(***************************************************************************)
(* Scheduling-DAG mutations of the AMDGPU back end:                        *)
(*   - CustomInterleaving::apply      (AMDGPUCustomInterleaving.cpp)       *)
(*   - DSReadClustering::collectMemOpRecords (AMDGPUDSReadClustering.cpp)  *)
(*   - BaseMemOpClusterMutation::MemOpInfo::operator<                      *)
(*                                     (ScheduleDAGMutation.h)             *)
(* A scheduling unit is identified by its NodeNum, its index in            *)
(* DAG->SUnits (0-based as in the source); SUnits[n] is the MachineInstr   *)
(* SU.getInstr() of node n.                                                *)
(***************************************************************************)
EXTENDS Integers, Sequences, FiniteSets

\* Bounds of the model.
MaxNodes == 5        \* nodes of a region given to CustomInterleaving::apply
MaxMemNodes == 3     \* nodes of a region given to collectMemOpRecords
MaxBaseOps == 2      \* base operands of one MemOpInfo

VARIABLES
  SUnits,            \* DAG->SUnits: NodeNum -> MachineInstr
  ExitSU,            \* DAG->ExitSU.getInstr(), nullptr when it has none
  MemOperands,       \* NodeNum -> what TII->getMemOperandsWithOffsetWidth answers
  pc,                \* position in the running pass
  SUIdx,             \* the range-for position over DAG->SUnits
  DSReadCount, DSWriteCount, VMEMLoadCount, VMEMStoreCount, MFMACount,
  DSReads, DSWrites, VMEMLoads, VMEMStores, MFMAs,
  DSReadPriority, DSWritePriority, VMEMLoadPriority,
  CurrentPriority, TotalPriority,
  SUIter, MFMAIter, VMEMLoadIter, DSWriteIter, DSReadIter,
  Edges,             \* the edges handed to DAG->addEdge, in call order
  MemOpRecords,      \* the SmallVector filled by collectMemOpRecords
  Less               \* results of MemOpInfo::operator< on MemOpRecords

counts == <<DSReadCount, DSWriteCount, VMEMLoadCount, VMEMStoreCount, MFMACount>>
lists == <<DSReads, DSWrites, VMEMLoads, VMEMStores, MFMAs>>
prios == <<DSReadPriority, DSWritePriority, VMEMLoadPriority>>
iters == <<VMEMLoadIter, DSWriteIter, DSReadIter>>
graph == <<SUnits, ExitSU, MemOperands>>
cluster == <<MemOpRecords, Less>>
vars == <<graph, pc, SUIdx, counts, lists, prios, CurrentPriority,
          TotalPriority, SUIter, MFMAIter, iters, Edges, MemOpRecords, Less>>

----------------------------------------------------------------------------
\* Machine instructions: the opcode and the flags the passes query.

MI(op, ds, mai, vmem, ld, st, asm) ==
  [Opcode |-> op, isDS |-> ds, isMAI |-> mai, isVMEM |-> vmem,
   mayLoad |-> ld, mayStore |-> st, isInlineAsm |-> asm]

nullptr == MI("nullptr", FALSE, FALSE, FALSE, FALSE, FALSE, FALSE)

\* The instructions a region is built from.  DS_ADD_RTN_U32 is an LDS atomic
\* with return: it both loads and stores.
MachineInstrs ==
  { MI("INLINEASM",              FALSE, FALSE, FALSE, FALSE, FALSE, TRUE),
    MI("DS_READ_B128",           TRUE,  FALSE, FALSE, TRUE,  FALSE, FALSE),
    MI("DS_WRITE_B128",          TRUE,  FALSE, FALSE, FALSE, TRUE,  FALSE),
    MI("DS_ADD_RTN_U32",         TRUE,  FALSE, FALSE, TRUE,  TRUE,  FALSE),
    MI("V_MFMA_F32_32X32X2F32",  FALSE, TRUE,  FALSE, FALSE, FALSE, FALSE),
    MI("BUFFER_LOAD_DWORDX4",    FALSE, FALSE, TRUE,  TRUE,  FALSE, FALSE),
    MI("BUFFER_STORE_DWORDX4",   FALSE, FALSE, TRUE,  FALSE, TRUE,  FALSE),
    MI("S_ADD_U32",              FALSE, FALSE, FALSE, FALSE, FALSE, FALSE) }

\* What DAG->ExitSU.getInstr() can be.
ExitInstrs ==
  { nullptr,
    MI("S_CBRANCH_SCC1", FALSE, FALSE, FALSE, FALSE, FALSE, FALSE),
    MI("S_CBRANCH_SCC0", FALSE, FALSE, FALSE, FALSE, FALSE, FALSE) }

NumSUnits == Cardinality(DOMAIN SUnits)

isDSRead(SU) == SU.isDS /\ SU.mayLoad

isDSWrite(SU) == SU.isDS /\ SU.mayStore

isMFMA(SU) == SU.isMAI

isVMEMLoad(SU) == SU.isVMEM /\ SU.mayLoad

isVMEMStore(SU) == SU.isVMEM /\ SU.mayStore

isInlineAsm(SU) == SU.isInlineAsm

----------------------------------------------------------------------------
\* CustomInterleaving

\* Mutation: the exit instruction is not examined.
identifyGEMMHotLoop_NoEnd(units, exit) ==
  units[0] # nullptr /\ (isInlineAsm(units[0]) \/ isVMEMLoad(units[0]))

identifyGEMMHotLoop(units, exit) ==
  LET SU == units[0]
      gotBegin == SU # nullptr /\ (isInlineAsm(SU) \/ isVMEMLoad(SU))
      gotEnd == gotBegin /\ exit # nullptr /\ exit.Opcode = "S_CBRANCH_SCC1"
  IN  gotBegin /\ gotEnd

\* The if/else-if chain of the classification loop: the list a node goes to.
ClassOf(SU) ==
  IF isDSRead(SU) THEN "DSRead"
  ELSE IF isDSWrite(SU) THEN "DSWrite"
  ELSE IF isMFMA(SU) THEN "MFMA"
  ELSE IF isVMEMLoad(SU) THEN "VMEMLoad"
  ELSE IF isVMEMStore(SU) THEN "VMEMStore"
  ELSE "Other"

NotAssignedPriority(prio) == prio < 0

LocalsInit ==
  /\ SUIdx = 0
  /\ DSReadCount = 0 /\ DSWriteCount = 0 /\ VMEMLoadCount = 0
  /\ VMEMStoreCount = 0 /\ MFMACount = 0
  /\ DSReads = <<>> /\ DSWrites = <<>> /\ VMEMLoads = <<>>
  /\ VMEMStores = <<>> /\ MFMAs = <<>>
  /\ DSReadPriority = -1 /\ DSWritePriority = -1 /\ VMEMLoadPriority = -1
  /\ CurrentPriority = 0 /\ TotalPriority = 0
  /\ SUIter = -1 /\ MFMAIter = -1
  /\ VMEMLoadIter = -1 /\ DSWriteIter = -1 /\ DSReadIter = -1
  /\ Edges = <<>>
  /\ MemOpRecords = <<>>
  /\ Less = <<>>

Init ==
  /\ \E n \in 1..MaxNodes : SUnits \in [0..(n - 1) -> MachineInstrs]
  /\ ExitSU \in ExitInstrs
  /\ MemOperands = <<>>
  /\ pc = "apply"
  /\ LocalsInit

\* if (!identifyGEMMHotLoop(DAG)) return;
Identify ==
  /\ pc = "apply"
  /\ pc' = IF identifyGEMMHotLoop(SUnits, ExitSU) THEN "classify" ELSE "done"
  /\ UNCHANGED <<graph, SUIdx, counts, lists, prios, CurrentPriority,
                 TotalPriority, SUIter, MFMAIter, iters, Edges, cluster>>

\* One iteration of for (SUnit &SU : DAG->SUnits), or the loop's exit.
Classify ==
  /\ pc = "classify"
  /\ IF SUIdx < NumSUnits
       THEN LET c == ClassOf(SUnits[SUIdx]) IN
            /\ DSReadCount' = IF c = "DSRead" THEN DSReadCount + 1 ELSE DSReadCount
            /\ DSReads' = IF c = "DSRead" THEN Append(DSReads, SUIdx) ELSE DSReads
            /\ DSWriteCount' = IF c = "DSWrite" THEN DSWriteCount + 1 ELSE DSWriteCount
            /\ DSWrites' = IF c = "DSWrite" THEN Append(DSWrites, SUIdx) ELSE DSWrites
            /\ MFMACount' = IF c = "MFMA" THEN MFMACount + 1 ELSE MFMACount
            /\ MFMAs' = IF c = "MFMA" THEN Append(MFMAs, SUIdx) ELSE MFMAs
            /\ VMEMLoadCount' = IF c = "VMEMLoad" THEN VMEMLoadCount + 1 ELSE VMEMLoadCount
            /\ VMEMLoads' = IF c = "VMEMLoad" THEN Append(VMEMLoads, SUIdx) ELSE VMEMLoads
            /\ VMEMStoreCount' = IF c = "VMEMStore" THEN VMEMStoreCount + 1 ELSE VMEMStoreCount
            /\ VMEMStores' = IF c = "VMEMStore" THEN Append(VMEMStores, SUIdx) ELSE VMEMStores
            /\ SUIdx' = SUIdx + 1
            /\ pc' = pc
       ELSE /\ pc' = "assert"
            /\ UNCHANGED <<SUIdx, counts, lists>>
  /\ UNCHANGED <<graph, prios, CurrentPriority, TotalPriority, SUIter,
                 MFMAIter, iters, Edges, cluster>>

\* assert(VMEMStoreCount == 0) in a build with assertions enabled, when the
\* condition is false: the process is terminated.
AssertFails ==
  /\ pc = "assert"
  /\ VMEMStoreCount # 0
  /\ pc' = "aborted"
  /\ UNCHANGED <<graph, SUIdx, counts, lists, prios, CurrentPriority,
                 TotalPriority, SUIter, MFMAIter, iters, Edges, cluster>>

\* The assertion holds, or the build defines NDEBUG and the assertion is
\* compiled out: the locals of the priority computation are initialised.
AssertPasses ==
  /\ pc = "assert"
  /\ DSReadPriority' = -1 /\ DSWritePriority' = -1 /\ VMEMLoadPriority' = -1
  /\ CurrentPriority' = 0 /\ TotalPriority' = 0
  /\ SUIter' = NumSUnits - 1
  /\ pc' = "scan"
  /\ UNCHANGED <<graph, SUIdx, counts, lists, MFMAIter, iters, Edges, cluster>>

\* Mutation: the compute stack is entered one below its top.
Scan_SkipLastMFMA ==
  /\ pc = "scan"
  /\ IF SUIter >= 0
       THEN LET SU == SUnits[SUIter]
                r == isDSRead(SU) /\ NotAssignedPriority(DSReadPriority)
                w == ~r /\ isDSWrite(SU) /\ NotAssignedPriority(DSWritePriority)
                v == ~r /\ ~w /\ isVMEMLoad(SU) /\ NotAssignedPriority(VMEMLoadPriority)
            IN
            /\ SUIter' = SUIter - 1
            /\ DSReadPriority' = IF r THEN CurrentPriority ELSE DSReadPriority
            /\ DSWritePriority' = IF w THEN CurrentPriority ELSE DSWritePriority
            /\ VMEMLoadPriority' = IF v THEN CurrentPriority ELSE VMEMLoadPriority
            /\ CurrentPriority' = IF r \/ w \/ v THEN CurrentPriority + 1 ELSE CurrentPriority
            /\ UNCHANGED <<TotalPriority, MFMAIter, pc>>
       ELSE /\ TotalPriority' = CurrentPriority
            /\ MFMAIter' = Len(MFMAs) - 2
            /\ CurrentPriority' = 0
            /\ pc' = "pair"
            /\ UNCHANGED <<SUIter, prios>>
  /\ UNCHANGED <<graph, SUIdx, counts, lists, iters, Edges, cluster>>

\* One iteration of the backward while (SUIter >= 0) loop, or its exit with
\* TotalPriority = CurrentPriority, MFMAIter = MFMAs.size() - 1 and
\* CurrentPriority reset to 0.
Scan ==
  /\ pc = "scan"
  /\ IF SUIter >= 0
       THEN LET SU == SUnits[SUIter]
                r == isDSRead(SU) /\ NotAssignedPriority(DSReadPriority)
                w == ~r /\ isDSWrite(SU) /\ NotAssignedPriority(DSWritePriority)
                v == ~r /\ ~w /\ isVMEMLoad(SU) /\ NotAssignedPriority(VMEMLoadPriority)
            IN
            /\ SUIter' = SUIter - 1
            /\ DSReadPriority' = IF r THEN CurrentPriority ELSE DSReadPriority
            /\ DSWritePriority' = IF w THEN CurrentPriority ELSE DSWritePriority
            /\ VMEMLoadPriority' = IF v THEN CurrentPriority ELSE VMEMLoadPriority
            /\ CurrentPriority' = IF r \/ w \/ v THEN CurrentPriority + 1 ELSE CurrentPriority
            /\ UNCHANGED <<TotalPriority, MFMAIter, pc>>
       ELSE /\ TotalPriority' = CurrentPriority
            /\ MFMAIter' = Len(MFMAs) - 1
            /\ CurrentPriority' = 0
            /\ pc' = "pair"
            /\ UNCHANGED <<SUIter, prios>>
  /\ UNCHANGED <<graph, SUIdx, counts, lists, iters, Edges, cluster>>

\* DAG->addEdge(SuccSU, SDep(PredSU, SDep::Artificial)): the call is recorded.
addEdge(SuccSU, PredSU) ==
  Append(Edges, [Succ |-> SuccSU, Pred |-> PredSU, Kind |-> "Artificial"])

\* The head of while (CurrentPriority < TotalPriority): the branch taken for
\* the current rank, with its iterator initialised; or the loop's exit.
PairSelect ==
  /\ pc = "pair"
  /\ IF CurrentPriority < TotalPriority
       THEN IF CurrentPriority = VMEMLoadPriority
              THEN /\ VMEMLoadIter' = Len(VMEMLoads) - 1
                   /\ pc' = "pairVMEMLoad"
                   /\ UNCHANGED <<DSWriteIter, DSReadIter, CurrentPriority>>
              ELSE IF CurrentPriority = DSWritePriority
                THEN /\ DSWriteIter' = Len(DSWrites) - 1
                     /\ pc' = "pairDSWrite"
                     /\ UNCHANGED <<VMEMLoadIter, DSReadIter, CurrentPriority>>
                ELSE IF CurrentPriority = DSReadPriority
                  THEN /\ DSReadIter' = Len(DSReads) - 1
                       /\ pc' = "pairDSRead"
                       /\ UNCHANGED <<VMEMLoadIter, DSWriteIter, CurrentPriority>>
                  ELSE /\ CurrentPriority' = CurrentPriority + 1
                       /\ UNCHANGED <<iters, pc>>
       ELSE /\ pc' = "done"
            /\ UNCHANGED <<iters, CurrentPriority>>
  /\ UNCHANGED <<graph, SUIdx, counts, lists, prios, TotalPriority, SUIter,
                 MFMAIter, Edges, cluster>>

\* Mutation: the buffer_load loop stops before the first vector load.
PairVMEMLoad_StopsEarly ==
  /\ pc = "pairVMEMLoad"
  /\ IF VMEMLoadIter > 0 /\ MFMAIter >= 0
       THEN /\ Edges' = addEdge(MFMAs[MFMAIter + 1], VMEMLoads[VMEMLoadIter + 1])
            /\ VMEMLoadIter' = VMEMLoadIter - 1
            /\ MFMAIter' = MFMAIter - 1
            /\ UNCHANGED <<CurrentPriority, pc>>
       ELSE /\ CurrentPriority' = CurrentPriority + 1
            /\ pc' = "pair"
            /\ UNCHANGED <<VMEMLoadIter, MFMAIter, Edges>>
  /\ UNCHANGED <<graph, SUIdx, counts, lists, prios, TotalPriority, SUIter,
                 DSWriteIter, DSReadIter, cluster>>

\* One iteration of the buffer_load loop, or its exit and ++CurrentPriority.
PairVMEMLoad ==
  /\ pc = "pairVMEMLoad"
  /\ IF VMEMLoadIter >= 0 /\ MFMAIter >= 0
       THEN /\ Edges' = addEdge(MFMAs[MFMAIter + 1], VMEMLoads[VMEMLoadIter + 1])
            /\ VMEMLoadIter' = VMEMLoadIter - 1
            /\ MFMAIter' = MFMAIter - 1
            /\ UNCHANGED <<CurrentPriority, pc>>
       ELSE /\ CurrentPriority' = CurrentPriority + 1
            /\ pc' = "pair"
            /\ UNCHANGED <<VMEMLoadIter, MFMAIter, Edges>>
  /\ UNCHANGED <<graph, SUIdx, counts, lists, prios, TotalPriority, SUIter,
                 DSWriteIter, DSReadIter, cluster>>

\* Mutation: the compute iterator is not advanced.
PairDSWrite_SameMFMA ==
  /\ pc = "pairDSWrite"
  /\ IF DSWriteIter >= 0 /\ MFMAIter >= 0
       THEN /\ Edges' = addEdge(MFMAs[MFMAIter + 1], DSWrites[DSWriteIter + 1])
            /\ DSWriteIter' = DSWriteIter - 1
            /\ UNCHANGED <<MFMAIter, CurrentPriority, pc>>
       ELSE /\ CurrentPriority' = CurrentPriority + 1
            /\ pc' = "pair"
            /\ UNCHANGED <<DSWriteIter, MFMAIter, Edges>>
  /\ UNCHANGED <<graph, SUIdx, counts, lists, prios, TotalPriority, SUIter,
                 VMEMLoadIter, DSReadIter, cluster>>

\* One iteration of the ds_write loop, or its exit and ++CurrentPriority.
PairDSWrite ==
  /\ pc = "pairDSWrite"
  /\ IF DSWriteIter >= 0 /\ MFMAIter >= 0
       THEN /\ Edges' = addEdge(MFMAs[MFMAIter + 1], DSWrites[DSWriteIter + 1])
            /\ DSWriteIter' = DSWriteIter - 1
            /\ MFMAIter' = MFMAIter - 1
            /\ UNCHANGED <<CurrentPriority, pc>>
       ELSE /\ CurrentPriority' = CurrentPriority + 1
            /\ pc' = "pair"
            /\ UNCHANGED <<DSWriteIter, MFMAIter, Edges>>
  /\ UNCHANGED <<graph, SUIdx, counts, lists, prios, TotalPriority, SUIter,
                 VMEMLoadIter, DSReadIter, cluster>>

\* Mutation: the edge is added with its two ends exchanged.
PairDSRead_Swapped ==
  /\ pc = "pairDSRead"
  /\ IF DSReadIter >= 0 /\ MFMAIter >= 0
       THEN /\ Edges' = addEdge(DSReads[DSReadIter + 1], MFMAs[MFMAIter + 1])
            /\ DSReadIter' = DSReadIter - 1
            /\ MFMAIter' = MFMAIter - 1
            /\ UNCHANGED <<CurrentPriority, pc>>
       ELSE /\ CurrentPriority' = CurrentPriority + 1
            /\ pc' = "pair"
            /\ UNCHANGED <<DSReadIter, MFMAIter, Edges>>
  /\ UNCHANGED <<graph, SUIdx, counts, lists, prios, TotalPriority, SUIter,
                 VMEMLoadIter, DSWriteIter, cluster>>

\* One iteration of the ds_read loop, or its exit and ++CurrentPriority.
PairDSRead ==
  /\ pc = "pairDSRead"
  /\ IF DSReadIter >= 0 /\ MFMAIter >= 0
       THEN /\ Edges' = addEdge(MFMAs[MFMAIter + 1], DSReads[DSReadIter + 1])
            /\ DSReadIter' = DSReadIter - 1
            /\ MFMAIter' = MFMAIter - 1
            /\ UNCHANGED <<CurrentPriority, pc>>
       ELSE /\ CurrentPriority' = CurrentPriority + 1
            /\ pc' = "pair"
            /\ UNCHANGED <<DSReadIter, MFMAIter, Edges>>
  /\ UNCHANGED <<graph, SUIdx, counts, lists, prios, TotalPriority, SUIter,
                 VMEMLoadIter, DSWriteIter, cluster>>

Next ==
  \/ Identify
  \/ Classify
  \/ AssertFails
  \/ AssertPasses
  \/ Scan
  \/ PairSelect
  \/ PairVMEMLoad
  \/ PairDSWrite
  \/ PairDSRead

Spec == Init /\ [][Next]_vars

----------------------------------------------------------------------------
\* DSReadClustering

\* DSReadClustering passes IsLoad = true to BaseMemOpClusterMutation.
IsLoad == TRUE

\* A base operand: MachineOperand with its type, its register (or index)
\* and the instruction that owns it.
MO(type, val, parent) == [Type |-> type, Val |-> val, Parent |-> parent]

MachineOperands == { MO(0, 1, "a"), MO(0, 1, "b"), MO(0, 2, "a") }

MemOpInfo(su, baseOps, offset, width) ==
  [SU |-> su, BaseOps |-> baseOps, Offset |-> offset, Width |-> width]

\* Answers of getMemOperandsWithOffsetWidth: failure, or base operands,
\* offset and width.
NoMemOperands == [ok |-> FALSE, BaseOps |-> <<>>, Offset |-> 0, Width |-> 0]

MemOperandAnswers ==
  { NoMemOperands } \cup
  { [ok |-> TRUE, BaseOps |-> <<MO(0, 1, "a")>>, Offset |-> off, Width |-> 16] :
      off \in {0, 16} }

InitCluster ==
  /\ \E n \in 1..MaxMemNodes :
        /\ SUnits \in [0..(n - 1) -> MachineInstrs]
        /\ MemOperands \in [0..(n - 1) -> MemOperandAnswers]
  /\ ExitSU = nullptr
  /\ pc = "collect"
  /\ LocalsInit

\* Mutation: a failed base-address query ends the loop.
collectMemOpRecords_StopOnMissing ==
  /\ pc = "collect"
  /\ IF SUIdx < NumSUnits
       THEN LET SU == SUnits[SUIdx]
                Q == MemOperands[SUIdx]
            IN
            IF (IsLoad /\ ~SU.mayLoad) \/ (~IsLoad /\ ~SU.mayStore)
              THEN SUIdx' = SUIdx + 1 /\ UNCHANGED <<MemOpRecords, pc>>
              ELSE IF ~SU.isDS
                THEN SUIdx' = SUIdx + 1 /\ UNCHANGED <<MemOpRecords, pc>>
                ELSE IF Q.ok
                  THEN /\ MemOpRecords' =
                            Append(MemOpRecords,
                                   MemOpInfo(SUIdx, Q.BaseOps, Q.Offset, Q.Width))
                       /\ SUIdx' = SUIdx + 1
                       /\ pc' = pc
                  ELSE /\ SUIdx' = NumSUnits
                       /\ pc' = "collected"
                       /\ UNCHANGED MemOpRecords
       ELSE /\ pc' = "collected"
            /\ UNCHANGED <<SUIdx, MemOpRecords>>
  /\ UNCHANGED <<graph, counts, lists, prios, CurrentPriority, TotalPriority,
                 SUIter, MFMAIter, iters, Edges, Less>>

\* One iteration of for (auto &SU : SUnits), or the loop's exit.  The two
\* direction tests of the source (inside the diagnostic block and after it)
\* have the same condition and both continue.  BaseOps holds operands only
\* when the query succeeded, so the assert(Op) loop passes.
collectMemOpRecords ==
  /\ pc = "collect"
  /\ IF SUIdx < NumSUnits
       THEN LET SU == SUnits[SUIdx]
                Q == MemOperands[SUIdx]
            IN
            /\ SUIdx' = SUIdx + 1
            /\ pc' = pc
            /\ IF (IsLoad /\ ~SU.mayLoad) \/ (~IsLoad /\ ~SU.mayStore)
                 THEN UNCHANGED MemOpRecords
                 ELSE IF ~SU.isDS
                   THEN UNCHANGED MemOpRecords
                   ELSE IF Q.ok
                     THEN MemOpRecords' =
                            Append(MemOpRecords,
                                   MemOpInfo(SUIdx, Q.BaseOps, Q.Offset, Q.Width))
                     ELSE UNCHANGED MemOpRecords
       ELSE /\ pc' = "collected"
            /\ UNCHANGED <<SUIdx, MemOpRecords>>
  /\ UNCHANGED <<graph, counts, lists, prios, CurrentPriority, TotalPriority,
                 SUIter, MFMAIter, iters, Edges, Less>>

NextCluster == collectMemOpRecords

SpecCluster == InitCluster /\ [][NextCluster]_vars

----------------------------------------------------------------------------
\* MemOpInfo::operator<

\* MemOpInfo::Compare: operands are ordered by type, then by register; the
\* owning instruction plays no part, so distinct operands can be equivalent.
Compare(A, B) ==
  IF A.Type # B.Type THEN A.Type < B.Type ELSE A.Val < B.Val

RECURSIVE LexFrom(_, _, _)
LexFrom(A, B, i) ==
  IF i > Len(A) \/ i > Len(B)
    THEN i > Len(A) /\ i <= Len(B)
    ELSE IF Compare(A[i], B[i]) THEN TRUE
    ELSE IF Compare(B[i], A[i]) THEN FALSE
    ELSE LexFrom(A, B, i + 1)

\* std::lexicographical_compare(A.begin(), A.end(), B.begin(), B.end(), Compare)
lexicographical_compare(A, B) == LexFrom(A, B, 1)

\* Mutation: the final tie-break uses <= instead of <.
MemOpLess_TieLeq(LHS, RHS) ==
  IF lexicographical_compare(LHS.BaseOps, RHS.BaseOps) THEN TRUE
  ELSE IF lexicographical_compare(RHS.BaseOps, LHS.BaseOps) THEN FALSE
  ELSE IF LHS.Offset # RHS.Offset THEN LHS.Offset < RHS.Offset
  ELSE LHS.SU <= RHS.SU

\* bool operator<(const MemOpInfo &RHS) const
MemOpLess(LHS, RHS) ==
  IF lexicographical_compare(LHS.BaseOps, RHS.BaseOps) THEN TRUE
  ELSE IF lexicographical_compare(RHS.BaseOps, LHS.BaseOps) THEN FALSE
  ELSE IF LHS.Offset # RHS.Offset THEN LHS.Offset < RHS.Offset
  ELSE LHS.SU < RHS.SU

BaseOpsSeqs == UNION { [1..k -> MachineOperands] : k \in 0..MaxBaseOps }

Offsets == {0, 16}

\* Three records of one run: the record at position i belongs to node i - 1.
InitOrder ==
  /\ SUnits = [n \in 0..2 |-> MI("DS_READ_B128", TRUE, FALSE, FALSE, TRUE, FALSE, FALSE)]
  /\ ExitSU = nullptr
  /\ MemOperands = <<>>
  /\ pc = "sort"
  /\ SUIdx = 0
  /\ DSReadCount = 0 /\ DSWriteCount = 0 /\ VMEMLoadCount = 0
  /\ VMEMStoreCount = 0 /\ MFMACount = 0
  /\ DSReads = <<>> /\ DSWrites = <<>> /\ VMEMLoads = <<>>
  /\ VMEMStores = <<>> /\ MFMAs = <<>>
  /\ DSReadPriority = -1 /\ DSWritePriority = -1 /\ VMEMLoadPriority = -1
  /\ CurrentPriority = 0 /\ TotalPriority = 0
  /\ SUIter = -1 /\ MFMAIter = -1
  /\ VMEMLoadIter = -1 /\ DSWriteIter = -1 /\ DSReadIter = -1
  /\ Edges = <<>>
  /\ \E a, b, c \in BaseOpsSeqs \X Offsets :
        MemOpRecords = << MemOpInfo(0, a[1], a[2], 16),
                          MemOpInfo(1, b[1], b[2], 16),
                          MemOpInfo(2, c[1], c[2], 16) >>
  /\ Less = <<>>

\* Every pair of records is compared with operator<.
CompareRecords ==
  /\ pc = "sort"
  /\ Less' = [i \in DOMAIN MemOpRecords |->
               [j \in DOMAIN MemOpRecords |->
                  MemOpLess(MemOpRecords[i], MemOpRecords[j])]]
  /\ pc' = "sorted"
  /\ UNCHANGED <<graph, SUIdx, counts, lists, prios, CurrentPriority,
                 TotalPriority, SUIter, MFMAIter, iters, Edges, MemOpRecords>>

NextOrder == CompareRecords

SpecOrder == InitOrder /\ [][NextOrder]_vars

----------------------------------------------------------------------------
\* Properties of CustomInterleaving::apply (checked under Spec)

Nodes == DOMAIN SUnits

Category(n) == ClassOf(SUnits[n])

MemoryCategories == {"DSRead", "DSWrite", "VMEMLoad"}

NodesOf(c) == { n \in Nodes : Category(n) = c }

NumMemory == Cardinality({ n \in Nodes : Category(n) \in MemoryCategories })

NumCompute == Cardinality(NodesOf("MFMA"))

Min(a, b) == IF a < b THEN a ELSE b

MaxOf(S) == CHOOSE x \in S : \A y \in S : y <= x

\* The shape test of the recognizer, as the claims word it.
HotLoopShape ==
  /\ isInlineAsm(SUnits[0]) \/ isVMEMLoad(SUnits[0])
  /\ ExitSU # nullptr
  /\ ExitSU.Opcode = "S_CBRANCH_SCC1"

InApply == pc \in {"apply", "classify", "assert", "scan", "pair", "pairVMEMLoad",
                   "pairDSWrite", "pairDSRead", "done", "aborted"}

\* The backward scan has run to its end.
ScanFinished ==
  \/ pc \in {"pair", "pairVMEMLoad", "pairDSWrite", "pairDSRead"}
  \/ pc = "done" /\ HotLoopShape

PredsBefore(i) == { Edges[k].Pred : k \in 1..(i - 1) }

\* C1: a region that does not have the hot-loop shape (first node neither
\* inline asm nor VMEM load, or exit node without instruction or with an
\* opcode other than S_CBRANCH_SCC1) gets no edge: apply returns at once.
C1_NoEdgeWithoutShape ==
  (InApply /\ ~HotLoopShape) => (Edges = <<>> /\ pc \in {"apply", "done"})

\* C1 witness: apply has returned on a region whose first node is an inline
\* asm but whose exit is not the branch, although the region holds a compute
\* node and a memory node that could have been paired.
C1_Witness ==
  /\ pc = "done"
  /\ isInlineAsm(SUnits[0])
  /\ ExitSU.Opcode # "S_CBRANCH_SCC1"
  /\ NumCompute >= 1 /\ NumMemory >= 1
  /\ Edges = <<>>

\* C2: every memory node is the predecessor of at most one added edge, and
\* the compute nodes of the added edges strictly decrease in call order, so
\* no compute node is paired twice.
C2_EachNodePairedOnce ==
  \A i, j \in 1..Len(Edges) :
    i < j => (Edges[i].Succ > Edges[j].Succ /\ Edges[i].Pred # Edges[j].Pred)

\* C2 witness: apply has finished after pairing over two ranks, with edges
\* from two categories.
C2_Witness ==
  /\ pc = "done"
  /\ TotalPriority >= 2
  /\ Len(Edges) >= 2
  /\ \E i, j \in 1..Len(Edges) : Category(Edges[i].Pred) # Category(Edges[j].Pred)

\* C3: on a region of the hot-loop shape without vector store, apply adds
\* exactly min(M, C) edges, all Artificial, M the number of local reads,
\* local writes and vector loads and C the number of compute nodes.
C3_EdgeCountIsMin ==
  (pc = "done" /\ HotLoopShape /\ NodesOf("VMEMStore") = {}) =>
     /\ Len(Edges) = Min(NumMemory, NumCompute)
     /\ \A i \in 1..Len(Edges) : Edges[i].Kind = "Artificial"

\* C3 witness: a finished run with more memory nodes than compute nodes,
\* in two categories, and two edges.
C3_Witness ==
  /\ pc = "done" /\ HotLoopShape /\ NodesOf("VMEMStore") = {}
  /\ NumCompute = 2 /\ NumMemory = 3
  /\ NodesOf("VMEMLoad") # {} /\ NodesOf("DSWrite") # {}
  /\ Len(Edges) = 2

\* C4: a region of the hot-loop shape with a vector store makes apply return
\* normally, without terminating the program, and without adding an edge.
C4_VMEMStoreIsNonFatalAbort ==
  (InApply /\ HotLoopShape /\ VMEMStoreCount > 0) =>
     (pc # "aborted" /\ Edges = <<>>)

C6_OnlyNonEmptyCategoriesRanked ==
  ScanFinished =>
     /\ DSReadPriority >= 0 => DSReads # <<>>
     /\ DSWritePriority >= 0 => DSWrites # <<>>
     /\ VMEMLoadPriority >= 0 => VMEMLoads # <<>>
     /\ TotalPriority =
          Cardinality({ c \in MemoryCategories : NodesOf(c) # {} })

PriorityOf(c) ==
  IF c = "DSRead" THEN DSReadPriority
  ELSE IF c = "DSWrite" THEN DSWritePriority
  ELSE VMEMLoadPriority

Ranked == { c \in MemoryCategories : PriorityOf(c) >= 0 }

\* C7: the ranks are 0..k-1 without gap or repeat, and of two ranked
\* categories the one whose last member is later in program order has the
\* smaller rank and is paired first.
C7_RanksFollowLastMember ==
  ScanFinished =>
     /\ { PriorityOf(c) : c \in Ranked } = 0..(Cardinality(Ranked) - 1)
     /\ \A c, d \in Ranked : c # d => PriorityOf(c) # PriorityOf(d)
     /\ \A c, d \in Ranked :
          (NodesOf(c) # {} /\ NodesOf(d) # {} /\ MaxOf(NodesOf(c)) > MaxOf(NodesOf(d)))
            => /\ PriorityOf(c) < PriorityOf(d)
               /\ \A i, j \in 1..Len(Edges) :
                    (Category(Edges[i].Pred) = c /\ Category(Edges[j].Pred) = d)
                      => i < j

\* C8: every added edge is Artificial, has a compute node as successor and a
\* local read, local write or vector load as predecessor, and the predecessor
\* is the highest-numbered member of its category not paired before.
C8_EdgeShape ==
  \A i \in 1..Len(Edges) :
    LET e == Edges[i] IN
    /\ e.Kind = "Artificial"
    /\ e.Succ \in Nodes /\ e.Pred \in Nodes
    /\ Category(e.Succ) = "MFMA"
    /\ Category(e.Pred) \in MemoryCategories
    /\ e.Pred = MaxOf(NodesOf(Category(e.Pred)) \ PredsBefore(i))

\* C8 witness: a finished run that added an edge in a region that also
\* holds an unclassified node after the first and a vector store.
C8_Witness ==
  /\ pc = "done"
  /\ Len(Edges) >= 1
  /\ \E n \in Nodes : n > 0 /\ Category(n) = "Other"
  /\ NodesOf("VMEMStore") # {}

----------------------------------------------------------------------------
\* Property of collectMemOpRecords (checked under SpecCluster)

Eligible(n) == SUnits[n].mayLoad /\ SUnits[n].isDS /\ MemOperands[n].ok

RecordsOf(n) == { i \in 1..Len(MemOpRecords) : MemOpRecords[i].SU = n }

\* C9: the records are, in node order, exactly one for every visited node
\* that may load, is a DS instruction and has a base-address descriptor, and
\* none for any other node; the loop always runs to the last node.
C9_OneRecordPerEligibleNode ==
  pc \in {"collect", "collected"} =>
     /\ \A n \in Nodes :
          Cardinality(RecordsOf(n)) = IF n < SUIdx /\ Eligible(n) THEN 1 ELSE 0
     /\ \A i, j \in 1..Len(MemOpRecords) :
          i < j => MemOpRecords[i].SU < MemOpRecords[j].SU
     /\ \A i \in 1..Len(MemOpRecords) :
          LET r == MemOpRecords[i] IN
          /\ r.BaseOps = MemOperands[r.SU].BaseOps
          /\ r.Offset = MemOperands[r.SU].Offset
          /\ r.Width = MemOperands[r.SU].Width
     /\ pc = "collected" => SUIdx = NumSUnits

\* C9 witness: the pass has finished; a DS load without descriptor was
\* skipped and a later eligible node was recorded.
C9_Witness ==
  /\ pc = "collected"
  /\ \E a, b \in Nodes :
       /\ a < b
       /\ SUnits[a].mayLoad /\ SUnits[a].isDS /\ ~MemOperands[a].ok
       /\ Eligible(b)
       /\ RecordsOf(a) = {}
       /\ RecordsOf(b) # {}

----------------------------------------------------------------------------
\* Property of MemOpInfo::operator< (checked under SpecOrder)

\* Base-operand sequences that Compare cannot tell apart.
BaseEquivalent(A, B) ==
  /\ Len(A) = Len(B)
  /\ \A k \in 1..Len(A) : ~Compare(A[k], B[k]) /\ ~Compare(B[k], A[k])

\* A precedes B lexicographically: at the first position where they differ
\* under Compare, A has the smaller operand or has ended.
BasePrecedes(A, B) ==
  \E p \in 1..(Len(B)) :
    /\ p <= Len(A) + 1
    /\ \A k \in 1..(p - 1) : ~Compare(A[k], B[k]) /\ ~Compare(B[k], A[k])
    /\ p = Len(A) + 1 \/ Compare(A[p], B[p])

\* C10: operator< is a strict total order on the records of one run: it is
\* irreflexive, asymmetric, transitive and total, orders by base operands
\* first, then by offset, and records with equivalent base operands and
\* equal offset by node number.
C10_StrictTotalOrder ==
  pc = "sorted" =>
    /\ \A i, j \in DOMAIN MemOpRecords :
         LET a == MemOpRecords[i]
             b == MemOpRecords[j]
         IN
         /\ ~Less[i][i]
         /\ Less[i][j] => ~Less[j][i]
         /\ i # j => (Less[i][j] \/ Less[j][i])
         /\ BasePrecedes(a.BaseOps, b.BaseOps) => Less[i][j]
         /\ BaseEquivalent(a.BaseOps, b.BaseOps) =>
              IF a.Offset # b.Offset
                THEN Less[i][j] <=> a.Offset < b.Offset
                ELSE Less[i][j] <=> a.SU < b.SU
    /\ \A i, j, k \in DOMAIN MemOpRecords :
         (Less[i][j] /\ Less[j][k]) => Less[i][k]

\* C10 witness: compared records among which two have equivalent but not
\* identical base operands and the same offset, and a third has a base
\* sequence that is a proper prefix of theirs.
C10_Witness ==
  /\ pc = "sorted"
  /\ \E i, j, k \in DOMAIN MemOpRecords :
       /\ i < j
       /\ MemOpRecords[i].BaseOps # MemOpRecords[j].BaseOps
       /\ BaseEquivalent(MemOpRecords[i].BaseOps, MemOpRecords[j].BaseOps)
       /\ MemOpRecords[i].Offset = MemOpRecords[j].Offset
       /\ Len(MemOpRecords[k].BaseOps) < Len(MemOpRecords[i].BaseOps)
       /\ Less[i][j] /\ Less[k][i]

====
